---- MODULE Spec2Model ----
(***************************************************************************)
(* Program adoption and workout-progress tracking of the fitness backend:  *)
(* the user_programs and workout_logs tables, the profile mirror, and the  *)
(* handlers start_program, toggle_save_program and log_workout.            *)
(***************************************************************************)
EXTENDS Integers, FiniteSets, Sequences, TLC

VARIABLES
    user_programs,   \* rows of table user_programs (committed)
    workout_logs,    \* rows of table workout_logs (committed)
    profiles,        \* user_profiles: current_program_id / current_program_start_date per user
    now,             \* the wall clock
    nextId,          \* next fresh primary key (uuid4)
    nops,            \* number of handler calls made so far
    last,            \* the last handler call: its arguments and its response
    pre,             \* user_programs as it was before the last handler call
    everStarted,     \* ids of the enrollments that have had status "started"
    tx,              \* per request in flight: its position, arguments and session
    resp             \* the response of the read request (GET /active, GET /status)
                     \* answered since the store or the clock last changed

vars == <<user_programs, workout_logs, profiles, now, nextId, nops, last, pre, everStarted, tx, resp>>

-----------------------------------------------------------------------------
(* Bounds of the model *)

MaxOps == 3        \* handler calls per behaviour
MaxTime == 2       \* clock readings 0 .. MaxTime
TicksPerDay == 2   \* clock readings per calendar day
MaxTxCalls == 2    \* requests per behaviour when requests overlap
MaxReadCalls == 2  \* writing calls per behaviour when read requests are answered between them

(* None of a nullable column or an omitted optional field *)
None == -1

Users == {"u1", "u2"}               \* registered users, each with a profile row
Callers == {"u1"}                   \* the user whose requests the behaviours follow
Other == "u2"                       \* a user who started p1 and logged a workout earlier
Catalog == {"p1", "p2"}             \* rows of table programs
ProgramIds == Catalog \cup {"p9"}   \* p9: a UUID naming no program
NoProgram == "none"

Times == 0 .. MaxTime
(* request bodies of POST /log (WorkoutLogCreate), apart from program_id and completed_at *)
LogInputs == {[day_number |-> 1, duration_minutes |-> None, notes |-> "none"],
              [day_number |-> 2, duration_minutes |-> 30, notes |-> "easy"],
              [day_number |-> -2, duration_minutes |-> 30, notes |-> "easy"]}
(* completed_at of a request: omitted, or the first instant of day 0 *)
CompletedAts == {None, 0}

(* request-handling coroutines that can be in flight together, each with its own session *)
Procs == {"a", "b"}

(* the session of a request not yet begun *)
IdleTx ==
    [pc |-> "idle", op |-> "none", user_id |-> "none", program_id |-> NoProgram,
     day_number |-> None, completed_at |-> None, duration_minutes |-> None, notes |-> "none",
     at |-> None, cand |-> {}, deact |-> {}, deact_at |-> None,
     up |-> {}, up_new |-> {}, log |-> {}, log_new |-> {}, result |-> "none"]

(* the null response of GET /status *)
NoStatus ==
    [result |-> "none", current_week |-> None, current_day_of_week |-> None,
     completed_workouts |-> None, is_completed_today |-> FALSE, start_date |-> None]

(* no read request has been answered yet *)
NoResp == [op |-> "none", user_id |-> "none", program |-> NoProgram, status |-> NoStatus]

(* date portion of a timestamp: datetime.combine(today, min) <= t <= datetime.combine(today, max) *)
DateOf(t) == t \div TicksPerDay

-----------------------------------------------------------------------------
(* Pure helpers: the queries and row updates of the handlers *)

(* ProgramExists that finds a program under every id *)
ProgramExistsAlways(p) == TRUE

(* start_program: select(Program).where(Program.id == program_id) finds a row *)
ProgramExists(p) == p \in Catalog

(* select(UserProgram).where(user_id == u, program_id == p) *)
FindUP(ups, u, p) == {r \in ups : r.user_id = u /\ r.program_id = p}

(* select(UserProgram).where(user_id == u, is_active == True) *)
ActiveOf(ups, u) == {r \in ups : r.user_id = u /\ r.is_active}

(* Deactivate without the user_id condition *)
DeactivateEveryone(ups, u, t) ==
    {IF r.is_active
        THEN [r EXCEPT !.is_active = FALSE, !.last_interaction_at = t]
        ELSE r : r \in ups}

(* Deactivate with the update left out *)
DeactivateNothing(ups, u, t) == ups

(* update(UserProgram).where(user_id == u, is_active).values(is_active=False);
   the column's onupdate stamps last_interaction_at *)
Deactivate(ups, u, t) ==
    {IF r.user_id = u /\ r.is_active
        THEN [r EXCEPT !.is_active = FALSE, !.last_interaction_at = t]
        ELSE r : r \in ups}

(* StartExisting with the guard "if not user_program.start_date" left out *)
StartExistingOverwrite(r, t) ==
    [r EXCEPT !.is_active = TRUE,
              !.status = "started",
              !.last_interaction_at = t,
              !.start_date = t]

(* start_program, the branch "if user_program" *)
StartExisting(r, t) ==
    [r EXCEPT !.is_active = TRUE,
              !.status = "started",
              !.last_interaction_at = t,
              !.start_date = IF r.start_date = None THEN t ELSE r.start_date]

(* start_program, the branch "else": UserProgram(status=STARTED, is_active=True, start_date=utcnow) *)
NewStarted(id, u, p, t) ==
    [id |-> id, user_id |-> u, program_id |-> p, status |-> "started",
     is_active |-> TRUE, start_date |-> t, last_interaction_at |-> t]

(* NewSaved with is_active=True *)
NewSavedActive(id, u, p, t) ==
    [id |-> id, user_id |-> u, program_id |-> p, status |-> "saved",
     is_active |-> TRUE, start_date |-> t, last_interaction_at |-> t]

(* toggle_save_program, the branch "else": UserProgram(status=SAVED, is_active=False);
   start_date and last_interaction_at take their column default datetime.utcnow *)
NewSaved(id, u, p, t) ==
    [id |-> id, user_id |-> u, program_id |-> p, status |-> "saved",
     is_active |-> FALSE, start_date |-> t, last_interaction_at |-> t]

(* ToggleStarted that also clears is_active *)
ToggleStartedDeactivate(r, t) ==
    [r EXCEPT !.status = "saved", !.last_interaction_at = t, !.is_active = FALSE]

(* toggle_save_program, the branch for a started or completed enrollment *)
ToggleStarted(r, t) ==
    [r EXCEPT !.status = "saved", !.last_interaction_at = t]

(* LogTouch that promotes whatever the status is *)
LogTouchActivate(r, t) ==
    [r EXCEPT !.last_interaction_at = t,
              !.status = "started",
              !.is_active = TRUE,
              !.start_date = IF r.start_date = None THEN t ELSE r.start_date]

(* LogTouch that marks a started enrollment completed *)
LogTouchComplete(r, t) ==
    IF r.status = "saved"
    THEN [r EXCEPT !.last_interaction_at = t,
                   !.status = "started",
                   !.is_active = TRUE,
                   !.start_date = IF r.start_date = None THEN t ELSE r.start_date]
    ELSE [r EXCEPT !.last_interaction_at = t, !.status = "completed"]

(* log_workout, "if user_program": touch, and promote a saved enrollment *)
LogTouch(r, t) ==
    IF r.status = "saved"
    THEN [r EXCEPT !.last_interaction_at = t,
                   !.status = "started",
                   !.is_active = TRUE,
                   !.start_date = IF r.start_date = None THEN t ELSE r.start_date]
    ELSE [r EXCEPT !.last_interaction_at = t]

(* TouchAll with the update left out *)
TouchNone(ups, u, p, t) == ups

(* log_workout, the update after an existing log was changed:
   update(UserProgram).where(user_id, program_id).values(last_interaction_at=utcnow) *)
TouchAll(ups, u, p, t) ==
    {IF r.user_id = u /\ r.program_id = p
        THEN [r EXCEPT !.last_interaction_at = t]
        ELSE r : r \in ups}

(* log_workout: the workout logs of (u, p) whose completed_at lies in the day `day` *)
LogsOfDay(logs, u, p, day) ==
    {l \in logs : l.user_id = u /\ l.program_id = p /\ DateOf(l.completed_at) = day}

(* log_workout: the day whose log is looked up: date.today() *)
LookupDay(completed_at, t) == DateOf(t)

(* UpdateLog that also stamps the log with the time of the update *)
UpdateLogRestamp(l, dur, notes) ==
    [l EXCEPT !.duration_minutes = dur, !.notes = notes,
              !.completed_at = l.completed_at + 1]

(* UpdateLog that also moves the log out of its program *)
UpdateLogReassign(l, dur, notes) ==
    [l EXCEPT !.duration_minutes = dur, !.notes = notes, !.program_id = NoProgram]

(* log_workout: existing_log.duration_minutes / notes = log_data's *)
UpdateLog(l, dur, notes) == [l EXCEPT !.duration_minutes = dur, !.notes = notes]

(* log_workout: WorkoutLog(..., completed_at=log_data.completed_at or datetime.now()) *)
NewLog(id, u, p, day_number, completed_at, dur, notes, t) ==
    [id |-> id, user_id |-> u, program_id |-> p, day_number |-> day_number,
     completed_at |-> IF completed_at = None THEN t ELSE completed_at,
     duration_minutes |-> dur, notes |-> notes]

(* get_active_program: scalar_one_or_none over the active rows, then the program *)
GetActiveProgram(ups, u) ==
    LET act == ActiveOf(ups, u) IN
    IF Cardinality(act) > 1 THEN "error"
    ELSE IF act = {} THEN NoProgram
    ELSE (CHOOSE r \in act : TRUE).program_id

WorkoutsPerWeek == 7

(* GetScheduleStatus that counts the logs completed since the enrollment's start_date *)
GetScheduleStatusSinceStart(ups, logs, u, t) ==
    LET act == ActiveOf(ups, u) IN
    IF Cardinality(act) > 1 THEN [NoStatus EXCEPT !.result = "error"]
    ELSE IF act = {} THEN NoStatus
    ELSE LET active_up == CHOOSE r \in act : TRUE
             completed_workouts_count ==
                 Cardinality({l \in logs : /\ l.user_id = u
                                           /\ l.program_id = active_up.program_id
                                           /\ l.completed_at >= active_up.start_date})
         IN [result |-> "ok",
             current_week |-> (completed_workouts_count \div WorkoutsPerWeek) + 1,
             current_day_of_week |-> (DateOf(t) % 7) + 1,
             completed_workouts |-> completed_workouts_count,
             is_completed_today |-> LogsOfDay(logs, u, active_up.program_id, DateOf(t)) # {},
             start_date |-> active_up.start_date]

(* get_schedule_status: the active row (scalar_one_or_none), the count of the
   logs of its program, the week computed from the count, today's log *)
GetScheduleStatus(ups, logs, u, t) ==
    LET act == ActiveOf(ups, u) IN
    IF Cardinality(act) > 1 THEN [NoStatus EXCEPT !.result = "error"]
    ELSE IF act = {} THEN NoStatus
    ELSE LET active_up == CHOOSE r \in act : TRUE
             completed_workouts_count ==
                 Cardinality({l \in logs : l.user_id = u /\ l.program_id = active_up.program_id})
         IN [result |-> "ok",
             current_week |-> (completed_workouts_count \div WorkoutsPerWeek) + 1,
             current_day_of_week |-> (DateOf(t) % 7) + 1,
             completed_workouts |-> completed_workouts_count,
             is_completed_today |-> LogsOfDay(logs, u, active_up.program_id, DateOf(t)) # {},
             start_date |-> active_up.start_date]

(* get_workout_history: the logs of (u, p), ordered by completed_at descending,
   offset skip, limit `limit`; rows of equal completed_at in the order the store picks *)
HistoryLimit == 50
LogsOf(logs, u, p) == {l \in logs : l.user_id = u /\ l.program_id = p}
SortedDesc(S) ==
    CHOOSE f \in [1 .. Cardinality(S) -> S] :
        /\ \A i, j \in 1 .. Cardinality(S) : i # j => f[i] # f[j]
        /\ \A i, j \in 1 .. Cardinality(S) : i < j => f[i].completed_at >= f[j].completed_at
GetWorkoutHistory(logs, u, p) ==
    LET all == SortedDesc(LogsOf(logs, u, p)) IN
    SubSeq(all, 1, IF Len(all) < HistoryLimit THEN Len(all) ELSE HistoryLimit)

(* profile.current_program_id = program_id; current_program_start_date = date.today() *)
SetProfile(prof, u, p, t) ==
    [prof EXCEPT ![u] = [current_program_id |-> p, current_program_start_date |-> DateOf(t)]]

StartedIds(ups) == {r.id : r \in {x \in ups : x.status = "started"}}

-----------------------------------------------------------------------------
(* The record of the last call *)

Call(op, u, p, result, is_saved, log_id, completed_at, dur, notes) ==
    [op |-> op, user_id |-> u, program_id |-> p, result |-> result,
     is_saved |-> is_saved, log_id |-> log_id, at |-> now,
     completed_at |-> completed_at, duration_minutes |-> dur, notes |-> notes,
     repeat |-> (last.op = op /\ last.user_id = u /\ last.program_id = p
                 /\ last.result # "error" /\ last.result # "not_found")]

Record(call, ups) ==
    /\ last' = call
    /\ pre' = user_programs
    /\ nops' = nops + 1
    /\ everStarted' = everStarted \cup StartedIds(ups)
    /\ resp' = NoResp
    /\ UNCHANGED tx

-----------------------------------------------------------------------------
(* The store when the behaviours start: every user has the profile row made at
   registration; Other has called start_program(p1) and log_workout(p1) at time 0;
   the caller has not yet used the tracker. *)
Init ==
    /\ user_programs = {NewStarted(1, Other, "p1", 0)}
    /\ workout_logs = {NewLog(2, Other, "p1", 1, None, 30, "easy", 0)}
    /\ profiles = [u \in Users |->
                     IF u = Other
                     THEN [current_program_id |-> "p1", current_program_start_date |-> 0]
                     ELSE [current_program_id |-> NoProgram,
                           current_program_start_date |-> None]]
    /\ now = 0
    /\ nextId = 3
    /\ nops = 0
    /\ last = [op |-> "init", user_id |-> "none", program_id |-> NoProgram,
               result |-> "ok", is_saved |-> FALSE, log_id |-> None, at |-> 0,
               completed_at |-> None, duration_minutes |-> None, notes |-> "none",
               repeat |-> FALSE]
    /\ pre = {NewStarted(1, Other, "p1", 0)}
    /\ everStarted = {1}
    /\ tx = [pr \in Procs |-> IdleTx]
    /\ resp = NoResp

(* the clock advances *)
Tick ==
    /\ now + 1 \in Times
    /\ now' = now + 1
    /\ resp' = NoResp
    /\ UNCHANGED <<user_programs, workout_logs, profiles, nextId, nops, last, pre, everStarted, tx>>

(* GET /active: reads the committed rows, writes nothing *)
GetActive(u) ==
    /\ resp' = [op |-> "active", user_id |-> u,
                program |-> GetActiveProgram(user_programs, u), status |-> NoStatus]
    /\ UNCHANGED <<user_programs, workout_logs, profiles, now, nextId, nops, last, pre,
                   everStarted, tx>>

(* GetStatus that stamps the active enrollment as an interaction *)
GetStatusTouching(u) ==
    /\ resp' = [op |-> "status", user_id |-> u, program |-> NoProgram,
                status |-> GetScheduleStatus(user_programs, workout_logs, u, now)]
    /\ user_programs' = {IF r.user_id = u /\ r.is_active
                            THEN [r EXCEPT !.last_interaction_at = now + 1]
                            ELSE r : r \in user_programs}
    /\ UNCHANGED <<workout_logs, profiles, now, nextId, nops, last, pre, everStarted, tx>>

(* GET /status: reads the committed rows, writes nothing *)
GetStatus(u) ==
    /\ resp' = [op |-> "status", user_id |-> u, program |-> NoProgram,
                status |-> GetScheduleStatus(user_programs, workout_logs, u, now)]
    /\ UNCHANGED <<user_programs, workout_logs, profiles, now, nextId, nops, last, pre,
                   everStarted, tx>>

(* POST /start/{program_id} *)
StartProgram(u, p) ==
    /\ nops < MaxOps
    /\ LET ups1 == Deactivate(user_programs, u, now)
           found == FindUP(ups1, u, p)
       IN
       IF ~ProgramExists(p) THEN
            \* 404 before any write
            /\ Record(Call("start", u, p, "not_found", FALSE, None, None, None, "none"), user_programs)
            /\ UNCHANGED <<user_programs, workout_logs, profiles, now, nextId>>
       ELSE IF Cardinality(found) > 1 THEN
            \* scalar_one_or_none raises; the session closes without a commit
            /\ Record(Call("start", u, p, "error", FALSE, None, None, None, "none"), user_programs)
            /\ UNCHANGED <<user_programs, workout_logs, profiles, now, nextId>>
       ELSE IF found # {} THEN
            LET r == CHOOSE x \in found : TRUE
                ups2 == (ups1 \ {r}) \cup {StartExisting(r, now)}
            IN
            /\ user_programs' = ups2
            /\ profiles' = SetProfile(profiles, u, p, now)
            /\ Record(Call("start", u, p, "ok", FALSE, None, None, None, "none"), ups2)
            /\ UNCHANGED <<workout_logs, now, nextId>>
       ELSE
            LET ups2 == ups1 \cup {NewStarted(nextId, u, p, now)} IN
            /\ user_programs' = ups2
            /\ nextId' = nextId + 1
            /\ profiles' = SetProfile(profiles, u, p, now)
            /\ Record(Call("start", u, p, "ok", FALSE, None, None, None, "none"), ups2)
            /\ UNCHANGED <<workout_logs, now>>

(* POST /save/{program_id} *)
ToggleSaved(u, p) ==
    /\ nops < MaxOps
    /\ LET found == FindUP(user_programs, u, p) IN
       IF Cardinality(found) > 1 THEN
            \* scalar_one_or_none raises; nothing is committed
            /\ Record(Call("toggle", u, p, "error", FALSE, None, None, None, "none"), user_programs)
            /\ UNCHANGED <<user_programs, workout_logs, profiles, now, nextId>>
       ELSE IF found # {} THEN
            LET r == CHOOSE x \in found : TRUE IN
            IF r.status = "saved" THEN
                /\ user_programs' = user_programs \ {r}
                /\ Record(Call("toggle", u, p, "deleted", FALSE, None, None, None, "none"),
                          user_programs \ {r})
                /\ UNCHANGED <<workout_logs, profiles, now, nextId>>
            ELSE
                LET ups2 == (user_programs \ {r}) \cup {ToggleStarted(r, now)} IN
                /\ user_programs' = ups2
                /\ Record(Call("toggle", u, p, "saved", TRUE, None, None, None, "none"), ups2)
                /\ UNCHANGED <<workout_logs, profiles, now, nextId>>
       ELSE
            LET ups2 == user_programs \cup {NewSaved(nextId, u, p, now)} IN
            /\ user_programs' = ups2
            /\ nextId' = nextId + 1
            /\ Record(Call("toggle", u, p, "created", TRUE, None, None, None, "none"), ups2)
            /\ UNCHANGED <<workout_logs, profiles, now>>

(* POST /log *)
LogWorkout(u, p, day_number, completed_at, dur, notes) ==
    /\ nops < MaxOps
    /\ LET existing == LogsOfDay(workout_logs, u, p, LookupDay(completed_at, now))
           found == FindUP(user_programs, u, p)
       IN
       IF existing # {} THEN
            \* scalars().first(): one of the day's logs
            \E l \in existing :
                LET ups2 == TouchAll(user_programs, u, p, now) IN
                /\ workout_logs' = (workout_logs \ {l}) \cup {UpdateLog(l, dur, notes)}
                /\ user_programs' = ups2
                /\ Record(Call("log", u, p, "updated", FALSE, l.id, completed_at, dur, notes), ups2)
                /\ UNCHANGED <<profiles, now, nextId>>
       ELSE IF Cardinality(found) > 1 THEN
            \* scalar_one_or_none raises; the added log is not committed
            /\ Record(Call("log", u, p, "error", FALSE, None, completed_at, dur, notes), user_programs)
            /\ UNCHANGED <<user_programs, workout_logs, profiles, now, nextId>>
       ELSE
            LET ups2 == {IF r \in found THEN LogTouch(r, now) ELSE r : r \in user_programs} IN
            /\ workout_logs' = workout_logs \cup
                                 {NewLog(nextId, u, p, day_number, completed_at, dur, notes, now)}
            /\ nextId' = nextId + 1
            /\ user_programs' = ups2
            /\ Record(Call("log", u, p, "inserted", FALSE, nextId, completed_at, dur, notes), ups2)
            /\ UNCHANGED <<profiles, now>>

Next ==
    \/ Tick
    \/ \E u \in Callers, p \in ProgramIds : StartProgram(u, p)
    \/ \E u \in Callers, p \in Catalog : ToggleSaved(u, p)
    \/ \E u \in Callers, p \in Catalog, c \in CompletedAts, i \in LogInputs :
          LogWorkout(u, p, i.day_number, c, i.duration_minutes, i.notes)

Spec == Init /\ [][Next]_vars

-----------------------------------------------------------------------------
(* Requests in flight together (SpecTx).  Each request has its own AsyncSession, hence
   its own transaction; a step is one statement sent to the store (or the flush
   and commit that end the transaction).  The store is PostgreSQL at READ
   COMMITTED: a statement sees the committed rows and the transaction's own
   writes; an UPDATE locks the rows it changes until the transaction ends, and
   a second writer of a locked row waits, then re-checks the row. *)

(* ids of the rows other transactions have updated and not yet committed *)
OtherLocks(pr) == UNION {tx[o].deact : o \in Procs \ {pr}}

(* the rows with the uncommitted is_active=False update of a transaction applied *)
ApplyDeact(ups, ids, t) ==
    {IF r.id \in ids
        THEN [r EXCEPT !.is_active = FALSE, !.last_interaction_at = t]
        ELSE r : r \in ups}

(* what the statements of request pr see of user_programs *)
TxView(pr) == ApplyDeact(user_programs, tx[pr].deact, tx[pr].deact_at)

RowOf(ups, id) == {r \in ups : r.id = id}
IdsOf(rows) == {r.id : r \in rows}

(* the unit of work's UPDATE by primary key: only the attributes that differ
   from the loaded ones are written, onto the row as it is now *)
ChangedOnly(cur, old, new) ==
    [f \in DOMAIN cur |-> IF old[f] # new[f] THEN new[f] ELSE cur[f]]

(* flush of a session holding the loaded rows `old` and their new values `new`
   (both empty or singletons) *)
FlushUpdate(rows, old, new) ==
    IF old = {} \/ new = {} THEN rows
    ELSE LET o == CHOOSE x \in old : TRUE
             n == CHOOSE x \in new : TRUE
         IN {IF r.id = o.id THEN ChangedOnly(r, o, n) ELSE r : r \in rows}

(* the end of a request: its session is closed, its locks are released *)
Closed(pr, result) ==
    [tx[pr] EXCEPT !.pc = "done", !.result = result, !.cand = {}, !.deact = {},
                   !.deact_at = None, !.up = {}, !.up_new = {}, !.log = {}, !.log_new = {}]

Respond(pr, result, is_saved, log_id, ups) ==
    /\ tx' = [tx EXCEPT ![pr] = Closed(pr, result)]
    /\ last' = Call(tx[pr].op, tx[pr].user_id, tx[pr].program_id, result, is_saved, log_id,
                    tx[pr].completed_at, tx[pr].duration_minutes, tx[pr].notes)
    /\ pre' = user_programs
    /\ everStarted' = everStarted \cup StartedIds(ups)
    /\ resp' = NoResp

(* an exception leaves the handler: get_db closes the session, nothing is committed *)
Abort(pr, result) ==
    /\ Respond(pr, result, FALSE, None, user_programs)
    /\ UNCHANGED <<user_programs, workout_logs, profiles, now, nextId, nops>>

Arrive(pr, op, u, p, i, c, pc) ==
    [IdleTx EXCEPT !.pc = pc, !.op = op, !.user_id = u, !.program_id = p,
                   !.day_number = i.day_number, !.completed_at = c,
                   !.duration_minutes = i.duration_minutes, !.notes = i.notes, !.at = now]

NoInput == [day_number |-> None, duration_minutes |-> None, notes |-> "none"]

(* start_program: select(Program); 404 when there is none *)
TxBeginStart(pr, u, p) ==
    /\ tx[pr].pc \in {"idle", "done"}
    /\ nops < MaxTxCalls
    /\ nops' = nops + 1
    /\ IF ProgramExists(p)
       THEN /\ tx' = [tx EXCEPT ![pr] = Arrive(pr, "start", u, p, NoInput, None, "s_deact")]
            /\ UNCHANGED <<last, pre, everStarted, resp>>
       ELSE /\ tx' = [tx EXCEPT ![pr] =
                        [Arrive(pr, "start", u, p, NoInput, None, "done") EXCEPT !.result = "not_found"]]
            /\ last' = Call("start", u, p, "not_found", FALSE, None, None, None, "none")
            /\ pre' = user_programs
            /\ UNCHANGED <<everStarted, resp>>
    /\ UNCHANGED <<user_programs, workout_logs, profiles, now, nextId>>

(* TxStartDeactivate whose UPDATE is committed at once *)
TxStartDeactivateCommitted(pr) ==
    /\ tx[pr].pc = "s_deact"
    /\ user_programs' = Deactivate(user_programs, tx[pr].user_id, now)
    /\ tx' = [tx EXCEPT ![pr].pc = "s_find", ![pr].deact_at = now]
    /\ UNCHANGED <<workout_logs, profiles, now, nextId, nops, last, pre, everStarted, resp>>

(* start_program: the UPDATE ... SET is_active=False of the user's active rows;
   it waits when another transaction holds one of them *)
TxStartDeactivate(pr) ==
    /\ tx[pr].pc = "s_deact"
    /\ LET targets == IdsOf(ActiveOf(user_programs, tx[pr].user_id)) IN
       IF targets \cap OtherLocks(pr) = {}
       THEN tx' = [tx EXCEPT ![pr].pc = "s_find", ![pr].deact = targets, ![pr].deact_at = now]
       ELSE tx' = [tx EXCEPT ![pr].pc = "s_wait", ![pr].cand = targets, ![pr].deact_at = now]
    /\ UNCHANGED <<user_programs, workout_logs, profiles, now, nextId, nops, last, pre, everStarted, resp>>

(* the waiting UPDATE goes on once the locks are released: it re-checks the rows
   it had selected and updates those still active *)
TxStartResume(pr) ==
    /\ tx[pr].pc = "s_wait"
    /\ tx[pr].cand \cap OtherLocks(pr) = {}
    /\ tx' = [tx EXCEPT ![pr].pc = "s_find", ![pr].cand = {},
                        ![pr].deact = {id \in tx[pr].cand :
                                         \E r \in user_programs : r.id = id /\ r.is_active}]
    /\ UNCHANGED <<user_programs, workout_logs, profiles, now, nextId, nops, last, pre, everStarted, resp>>

(* start_program: select the (u, p) row, then change it in the session or add a new one *)
TxStartFind(pr) ==
    /\ tx[pr].pc = "s_find"
    /\ LET u == tx[pr].user_id
           p == tx[pr].program_id
           found == FindUP(TxView(pr), u, p)
       IN
       IF Cardinality(found) > 1 THEN Abort(pr, "error")
       ELSE IF found # {} THEN
            /\ tx' = [tx EXCEPT ![pr].pc = "s_commit", ![pr].up = found,
                                ![pr].up_new = {StartExisting(r, now) : r \in found}]
            /\ UNCHANGED <<user_programs, workout_logs, profiles, now, nextId, nops,
                           last, pre, everStarted, resp>>
       ELSE
            /\ tx' = [tx EXCEPT ![pr].pc = "s_commit", ![pr].up = {},
                                ![pr].up_new = {NewStarted(nextId, u, p, now)}]
            /\ nextId' = nextId + 1
            /\ UNCHANGED <<user_programs, workout_logs, profiles, now, nops, last, pre, everStarted, resp>>

(* start_program: the profile update and db.commit(): flush, then commit *)
TxStartCommit(pr) ==
    /\ tx[pr].pc = "s_commit"
    /\ IdsOf(tx[pr].up) \cap OtherLocks(pr) = {}
    /\ LET base == TxView(pr) IN
       IF tx[pr].up # {} /\ IdsOf(tx[pr].up) \cap IdsOf(base) = {}
       THEN Abort(pr, "error")     \* the row was deleted meanwhile: StaleDataError
       ELSE LET ups2 == IF tx[pr].up = {}
                        THEN base \cup {[n EXCEPT !.last_interaction_at = now] : n \in tx[pr].up_new}
                        ELSE FlushUpdate(base, tx[pr].up, tx[pr].up_new)
            IN
            /\ user_programs' = ups2
            /\ profiles' = SetProfile(profiles, tx[pr].user_id, tx[pr].program_id, now)
            /\ Respond(pr, "ok", FALSE, None, ups2)
            /\ UNCHANGED <<workout_logs, now, nextId, nops>>

(* toggle_save_program arrives *)
TxBeginToggle(pr, u, p) ==
    /\ tx[pr].pc \in {"idle", "done"}
    /\ nops < MaxTxCalls
    /\ nops' = nops + 1
    /\ tx' = [tx EXCEPT ![pr] = Arrive(pr, "toggle", u, p, NoInput, None, "t_find")]
    /\ UNCHANGED <<user_programs, workout_logs, profiles, now, nextId, last, pre, everStarted, resp>>

(* toggle_save_program: select the (u, p) row and pick the branch *)
TxToggleFind(pr) ==
    /\ tx[pr].pc = "t_find"
    /\ LET u == tx[pr].user_id
           p == tx[pr].program_id
           found == FindUP(user_programs, u, p)
       IN
       IF Cardinality(found) > 1 THEN Abort(pr, "error")
       ELSE IF found # {} THEN
            /\ tx' = [tx EXCEPT ![pr].pc = "t_commit", ![pr].up = found,
                                ![pr].up_new = {ToggleStarted(r, now) :
                                                  r \in {x \in found : x.status # "saved"}}]
            /\ UNCHANGED <<user_programs, workout_logs, profiles, now, nextId, nops,
                           last, pre, everStarted, resp>>
       ELSE
            /\ tx' = [tx EXCEPT ![pr].pc = "t_commit", ![pr].up = {},
                                ![pr].up_new = {NewSaved(nextId, u, p, now)}]
            /\ nextId' = nextId + 1
            /\ UNCHANGED <<user_programs, workout_logs, profiles, now, nops, last, pre, everStarted, resp>>

(* toggle_save_program: db.commit() of the delete, the update or the insert *)
TxToggleCommit(pr) ==
    /\ tx[pr].pc = "t_commit"
    /\ IdsOf(tx[pr].up) \cap OtherLocks(pr) = {}
    /\ IF tx[pr].up = {} THEN
            \* INSERT; start_date and last_interaction_at default to utcnow at the flush
            LET ups2 == user_programs \cup
                          {[n EXCEPT !.start_date = now, !.last_interaction_at = now] :
                             n \in tx[pr].up_new}
            IN /\ user_programs' = ups2
               /\ Respond(pr, "created", TRUE, None, ups2)
       ELSE IF tx[pr].up_new = {} THEN
            \* DELETE by primary key; deleting no row is only warned about
            LET ups2 == {r \in user_programs : r.id \notin IdsOf(tx[pr].up)} IN
            /\ user_programs' = ups2
            /\ Respond(pr, "deleted", FALSE, None, ups2)
       ELSE IF IdsOf(tx[pr].up) \cap IdsOf(user_programs) = {} THEN
            /\ Respond(pr, "error", FALSE, None, user_programs)   \* StaleDataError
            /\ UNCHANGED user_programs
       ELSE
            LET ups2 == FlushUpdate(user_programs, tx[pr].up, tx[pr].up_new) IN
            /\ user_programs' = ups2
            /\ Respond(pr, "saved", TRUE, None, ups2)
    /\ UNCHANGED <<workout_logs, profiles, now, nextId, nops>>

(* log_workout arrives *)
TxBeginLog(pr, u, p, i, c) ==
    /\ tx[pr].pc \in {"idle", "done"}
    /\ nops < MaxTxCalls
    /\ nops' = nops + 1
    /\ tx' = [tx EXCEPT ![pr] = Arrive(pr, "log", u, p, i, c, "l_lookup")]
    /\ UNCHANGED <<user_programs, workout_logs, profiles, now, nextId, last, pre, everStarted, resp>>

(* log_workout: select today's log of (u, p); change it in the session, or
   build the new WorkoutLog and db.add it *)
TxLogLookup(pr) ==
    /\ tx[pr].pc = "l_lookup"
    /\ LET u == tx[pr].user_id
           p == tx[pr].program_id
           existing == LogsOfDay(workout_logs, u, p, LookupDay(tx[pr].completed_at, now))
       IN
       IF existing # {} THEN
            /\ \E l \in existing :
                 tx' = [tx EXCEPT ![pr].pc = "l_update", ![pr].at = now, ![pr].log = {l},
                                  ![pr].log_new = {UpdateLog(l, tx[pr].duration_minutes, tx[pr].notes)}]
            /\ UNCHANGED nextId
       ELSE
            /\ tx' = [tx EXCEPT ![pr].pc = "l_findup", ![pr].at = now, ![pr].log = {},
                                ![pr].log_new = {NewLog(nextId, u, p, tx[pr].day_number,
                                                        tx[pr].completed_at, tx[pr].duration_minutes,
                                                        tx[pr].notes, now)}]
            /\ nextId' = nextId + 1
    /\ UNCHANGED <<user_programs, workout_logs, profiles, now, nops, last, pre, everStarted, resp>>

(* log_workout, existing log: the first db.commit() writes the log's new values *)
TxLogUpdateCommit(pr) ==
    /\ tx[pr].pc = "l_update"
    /\ workout_logs' = FlushUpdate(workout_logs, tx[pr].log, tx[pr].log_new)
    /\ tx' = [tx EXCEPT ![pr].pc = "l_touch"]
    /\ resp' = NoResp
    /\ UNCHANGED <<user_programs, profiles, now, nextId, nops, last, pre, everStarted>>

(* log_workout, existing log: the UPDATE of last_interaction_at and the second db.commit() *)
TxLogTouchCommit(pr) ==
    /\ tx[pr].pc = "l_touch"
    /\ LET u == tx[pr].user_id
           p == tx[pr].program_id
           ups2 == TouchAll(user_programs, u, p, now)
       IN
       /\ IdsOf(FindUP(user_programs, u, p)) \cap OtherLocks(pr) = {}
       /\ user_programs' = ups2
       /\ Respond(pr, "updated", FALSE, (CHOOSE l \in tx[pr].log : TRUE).id, ups2)
    /\ UNCHANGED <<workout_logs, profiles, now, nextId, nops>>

(* log_workout, new log: select the (u, p) enrollment and touch it in the session *)
TxLogFindUP(pr) ==
    /\ tx[pr].pc = "l_findup"
    /\ LET found == FindUP(user_programs, tx[pr].user_id, tx[pr].program_id) IN
       IF Cardinality(found) > 1 THEN Abort(pr, "error")
       ELSE /\ tx' = [tx EXCEPT ![pr].pc = "l_commit", ![pr].up = found,
                                ![pr].up_new = {LogTouch(r, now) : r \in found}]
            /\ UNCHANGED <<user_programs, workout_logs, profiles, now, nextId, nops,
                           last, pre, everStarted, resp>>

(* log_workout, new log: db.commit() inserts the log and writes the enrollment *)
TxLogCommit(pr) ==
    /\ tx[pr].pc = "l_commit"
    /\ IdsOf(tx[pr].up) \cap OtherLocks(pr) = {}
    /\ IF tx[pr].up # {} /\ IdsOf(tx[pr].up) \cap IdsOf(user_programs) = {}
       THEN Abort(pr, "error")     \* the enrollment was deleted meanwhile: StaleDataError
       ELSE LET ups2 == FlushUpdate(user_programs, tx[pr].up, tx[pr].up_new) IN
            /\ workout_logs' = workout_logs \cup tx[pr].log_new
            /\ user_programs' = ups2
            /\ Respond(pr, "inserted", FALSE, (CHOOSE l \in tx[pr].log_new : TRUE).id, ups2)
            /\ UNCHANGED <<profiles, now, nextId, nops>>

(* the request is cancelled, or an await of the handler raises, before the
   handler has returned: get_db closes the session, which discards what the
   open transaction has not committed *)
TxCancel(pr) ==
    /\ tx[pr].pc \notin {"idle", "done"}
    /\ Abort(pr, "cancelled")

NextTx ==
    \/ \E pr \in Procs, u \in Callers, p \in ProgramIds : TxBeginStart(pr, u, p)
    \/ \E pr \in Procs : TxStartDeactivate(pr)
    \/ \E pr \in Procs : TxStartResume(pr)
    \/ \E pr \in Procs : TxStartFind(pr)
    \/ \E pr \in Procs : TxStartCommit(pr)
    \/ \E pr \in Procs, u \in Callers, p \in Catalog : TxBeginToggle(pr, u, p)
    \/ \E pr \in Procs : TxToggleFind(pr)
    \/ \E pr \in Procs : TxToggleCommit(pr)
    \/ \E pr \in Procs, u \in Callers, p \in Catalog, c \in CompletedAts, i \in LogInputs :
          TxBeginLog(pr, u, p, i, c)
    \/ \E pr \in Procs : TxLogLookup(pr)
    \/ \E pr \in Procs : TxLogUpdateCommit(pr)
    \/ \E pr \in Procs : TxLogTouchCommit(pr)
    \/ \E pr \in Procs : TxLogFindUP(pr)
    \/ \E pr \in Procs : TxLogCommit(pr)

(* A store after earlier use: as in Init, and the caller either has not used
   the tracker, or has called start_program(p1) at time 0, or has called
   start_program(p1) and log_workout(p1) at time 0.  The clock reads 1, later
   the same day; it does not advance while requests overlap. *)
InitTx ==
    \E started \in BOOLEAN, logged \in BOOLEAN :
        LET mine == IF started THEN {NewStarted(3, "u1", "p1", 0)} ELSE {}
            mylogs == IF logged THEN {NewLog(4, "u1", "p1", 1, None, None, "none", 0)} ELSE {}
        IN
        /\ logged => started
        /\ user_programs = {NewStarted(1, Other, "p1", 0)} \cup mine
        /\ workout_logs = {NewLog(2, Other, "p1", 1, None, 30, "easy", 0)} \cup mylogs
        /\ profiles = [u \in Users |->
                         IF u = Other \/ started
                         THEN [current_program_id |-> "p1", current_program_start_date |-> 0]
                         ELSE [current_program_id |-> NoProgram,
                               current_program_start_date |-> None]]
        /\ now = 1
        /\ nextId = 5
        /\ nops = 0
        /\ last = [op |-> "init", user_id |-> "none", program_id |-> NoProgram,
                   result |-> "ok", is_saved |-> FALSE, log_id |-> None, at |-> 0,
                   completed_at |-> None, duration_minutes |-> None, notes |-> "none",
                   repeat |-> FALSE]
        /\ pre = {NewStarted(1, Other, "p1", 0)} \cup mine
        /\ everStarted = {1} \cup IdsOf(mine)
        /\ tx = [pr \in Procs |-> IdleTx]
        /\ resp = NoResp

SpecTx == InitTx /\ [][NextTx]_vars

(* The handlers called one at a time from such a store, with the read requests
   answered between the calls *)
NextRead ==
    \/ Tick
    \/ \E u \in Callers : GetActive(u)
    \/ \E u \in Callers : GetStatus(u)
    \/ \E u \in Callers, p \in ProgramIds : nops < MaxReadCalls /\ StartProgram(u, p)
    \/ \E u \in Callers, p \in Catalog : nops < MaxReadCalls /\ ToggleSaved(u, p)
    \/ \E u \in Callers, p \in Catalog, c \in CompletedAts, i \in LogInputs :
          nops < MaxReadCalls /\ LogWorkout(u, p, i.day_number, c, i.duration_minutes, i.notes)

SpecRead == InitTx /\ [][NextRead]_vars

(* One writing request at a time, statement by statement, with the read
   requests answered and the request cancelled at any point between its
   statements.  No other request holds a lock, so no UPDATE waits. *)
Writer == "a"

NextSolo ==
    \/ TxCancel(Writer)
    \/ \E u \in Callers : GetActive(u)
    \/ \E u \in Callers : GetStatus(u)
    \/ \E u \in Callers, p \in ProgramIds : TxBeginStart(Writer, u, p)
    \/ TxStartDeactivate(Writer)
    \/ TxStartFind(Writer)
    \/ TxStartCommit(Writer)
    \/ \E u \in Callers, p \in Catalog : TxBeginToggle(Writer, u, p)
    \/ TxToggleFind(Writer)
    \/ TxToggleCommit(Writer)
    \/ \E u \in Callers, p \in Catalog, c \in CompletedAts, i \in LogInputs :
          TxBeginLog(Writer, u, p, i, c)
    \/ TxLogLookup(Writer)
    \/ TxLogUpdateCommit(Writer)
    \/ TxLogTouchCommit(Writer)
    \/ TxLogFindUP(Writer)
    \/ TxLogCommit(Writer)

SpecSolo == InitTx /\ [][NextSolo]_vars

-----------------------------------------------------------------------------
(* Properties of the handlers called one at a time (Spec) *)

(* a step that is a handler call, as opposed to a clock tick *)
IsCall == nops' # nops

(* the rows without last_interaction_at *)
Strip(ups) ==
    {[id |-> r.id, user_id |-> r.user_id, program_id |-> r.program_id,
      status |-> r.status, is_active |-> r.is_active, start_date |-> r.start_date] : r \in ups}

(* C1: after a successful StartProgram(u, p), exactly one enrollment of u is
   active, it is the one for (u, p), and GetActiveProgram(u) returns p. *)
C1_StartMakesSoleActive ==
    (last.op = "start" /\ last.result = "ok") =>
        /\ \E r \in user_programs :
              /\ ActiveOf(user_programs, last.user_id) = {r}
              /\ r.program_id = last.program_id
        /\ GetActiveProgram(user_programs, last.user_id) = last.program_id

(* C1 witness: StartProgram(u, P2) has just completed while u holds a started
   enrollment for another program P1, now inactive. *)
C1_Witness ==
    /\ last.op = "start" /\ last.result = "ok"
    /\ \E r \in user_programs :
          /\ r.user_id = last.user_id /\ r.program_id # last.program_id
          /\ r.status = "started" /\ ~r.is_active
    /\ GetActiveProgram(user_programs, last.user_id) = last.program_id

(* C2: each user has at most one enrollment with is_active = TRUE, whatever
   calls of StartProgram, ToggleSaved and LogWorkout were made. *)
C2_AtMostOneActive ==
    \A u \in Users : Cardinality(ActiveOf(user_programs, u)) <= 1

(* the calendar date a LogWorkout request is about: that of completed_at, or of
   the time of the call when completed_at is omitted *)
RequestDate(call) ==
    DateOf(IF call.completed_at = None THEN call.at ELSE call.completed_at)

(* C4: the ledger holds at most one entry per (user, program, calendar date of
   completed_at), and after a LogWorkout call the single entry of the request's
   date carries the duration and notes of that call. *)
C4_OneLogPerCalendarDate ==
    /\ \A a, b \in workout_logs :
          (a.user_id = b.user_id /\ a.program_id = b.program_id
              /\ DateOf(a.completed_at) = DateOf(b.completed_at)) => a = b
    /\ (last.op = "log" /\ last.result \in {"inserted", "updated"}) =>
          \E l \in workout_logs :
              /\ LogsOfDay(workout_logs, last.user_id, last.program_id, RequestDate(last)) = {l}
              /\ l.duration_minutes = last.duration_minutes
              /\ l.notes = last.notes

(* C6: StartProgram never changes a start_date that is already set, and a second
   StartProgram(u, p) right after a first one leaves one started, active row for
   (u, p) and every enrollment as it was, last_interaction_at apart. *)
C6_StartIdempotent ==
    [][ (IsCall /\ last'.op = "start" /\ last'.result = "ok") =>
            LET before == FindUP(user_programs, last'.user_id, last'.program_id)
                after == FindUP(user_programs', last'.user_id, last'.program_id)
            IN
            /\ \A r \in before : (r.start_date # None) =>
                    (\A q \in after : q.start_date = r.start_date)
            /\ last'.repeat =>
                    /\ Cardinality(after) = 1
                    /\ \A q \in after : q.status = "started" /\ q.is_active
                    /\ Strip(user_programs') = Strip(user_programs)
      ]_vars

(* C6 witness: StartProgram(u, p) was called twice in a row, the second time at
   a later clock reading than the enrollment's start_date. *)
C6_Witness ==
    /\ last.op = "start" /\ last.result = "ok" /\ last.repeat
    /\ \E r \in FindUP(user_programs, last.user_id, last.program_id) :
          r.start_date < last.at /\ r.last_interaction_at = last.at

(* C7: an enrollment disappears only by ToggleSaved, and only when its status is
   Saved and it has never had status Started. *)
C7_DeleteOnlyNeverStarted ==
    [][ \A r \in user_programs :
            (\A q \in user_programs' : q.id # r.id) =>
                (last'.op = "toggle" /\ r.status = "saved" /\ r.id \notin everStarted)
      ]_vars

(* C8: ToggleSaved on a started or completed enrollment sets status = saved and
   last_interaction_at = now, and leaves its is_active and start_date, every
   other enrollment and every workout log (so the history of (u, p)) unchanged. *)
C8_SaveStartedPreserves ==
    [][ (IsCall /\ last'.op = "toggle") =>
            \A r \in FindUP(user_programs, last'.user_id, last'.program_id) :
                (r.status \in {"started", "completed"}) =>
                    /\ \E q \in user_programs' :
                          /\ q.id = r.id /\ q.user_id = r.user_id /\ q.program_id = r.program_id
                          /\ q.status = "saved"
                          /\ q.last_interaction_at = now
                          /\ q.is_active = r.is_active
                          /\ q.start_date = r.start_date
                          /\ user_programs' \ {q} = user_programs \ {r}
                    /\ workout_logs' = workout_logs
                    /\ GetWorkoutHistory(workout_logs', r.user_id, r.program_id)
                          = GetWorkoutHistory(workout_logs, r.user_id, r.program_id)
      ]_vars

(* C8 witness: ToggleSaved has just saved an active, started enrollment that has
   a logged workout, at a later time than its previous interaction. *)
C8_Witness ==
    /\ last.op = "toggle" /\ last.result = "saved"
    /\ \E r \in FindUP(user_programs, last.user_id, last.program_id) :
          /\ r.status = "saved" /\ r.is_active /\ r.start_date < last.at
    /\ LogsOf(workout_logs, last.user_id, last.program_id) # {}

(* C9: the isSaved a ToggleSaved call returns is true exactly when a saved
   enrollment for (u, p) exists after it; with no enrollment for (u, p) the call
   creates one that is saved and inactive; a second call right after that deletes
   it, returns false and restores the enrollments as they were before the first. *)
C9_ToggleTwice ==
    [][ (IsCall /\ last'.op = "toggle" /\ last'.result # "error") =>
            LET before == FindUP(user_programs, last'.user_id, last'.program_id)
                after == FindUP(user_programs', last'.user_id, last'.program_id)
            IN
            /\ last'.is_saved <=> (\E q \in after : q.status = "saved")
            /\ (before = {}) =>
                    /\ last'.is_saved
                    /\ \E q \in after :
                          /\ after = {q} /\ q.status = "saved" /\ ~q.is_active
                          /\ user_programs' = user_programs \cup {q}
            /\ (last.op = "toggle" /\ last.result = "created"
                    /\ last.user_id = last'.user_id /\ last.program_id = last'.program_id) =>
                    /\ ~last'.is_saved
                    /\ after = {}
                    /\ user_programs' = pre
      ]_vars

(* C9 witness: the second of two ToggleSaved(u, p) calls in a row has deleted the
   never-started enrollment the first created. *)
C9_Witness ==
    /\ last.op = "toggle" /\ last.result = "deleted" /\ last.repeat /\ ~last.is_saved
    /\ FindUP(user_programs, last.user_id, last.program_id) = {}
    /\ \E r \in FindUP(pre, last.user_id, last.program_id) :
          r.status = "saved" /\ ~r.is_active /\ r.id \notin everStarted

(* C10: a completed LogWorkout(u, p) finding the enrollment of (u, p) saved
   leaves it started and active with a start_date, whether the call inserted a
   new log or updated the day's existing one. *)
C10_LogPromotesSaved ==
    [][ (IsCall /\ last'.op = "log" /\ last'.result \in {"inserted", "updated"}) =>
            \A r \in FindUP(user_programs, last'.user_id, last'.program_id) :
                (r.status = "saved") =>
                    \E q \in user_programs' :
                        /\ q.id = r.id /\ q.status = "started"
                        /\ q.is_active /\ q.start_date # None
      ]_vars

-----------------------------------------------------------------------------
(* Properties of overlapping requests (SpecTx) *)

Finished(pr, op, results) ==
    tx[pr].pc = "done" /\ tx[pr].op = op /\ tx[pr].result \in results

(* C3: once two overlapping StartProgram calls of one user for two different
   programs have both committed, exactly one enrollment of the user is active. *)
C3_ConcurrentStartsOneActive ==
    \A a, b \in Procs :
        (/\ a # b
         /\ Finished(a, "start", {"ok"}) /\ Finished(b, "start", {"ok"})
         /\ tx[a].user_id = tx[b].user_id
         /\ tx[a].program_id # tx[b].program_id)
        => Cardinality(ActiveOf(user_programs, tx[a].user_id)) = 1

(* C5: once two overlapping LogWorkout calls for the same user, program and
   calendar day (the day of the calls) have both committed, the ledger holds
   exactly one entry for that (user, program, day). *)
C5_ConcurrentLogsOneEntry ==
    \A a, b \in Procs :
        (/\ a # b
         /\ Finished(a, "log", {"inserted", "updated"})
         /\ Finished(b, "log", {"inserted", "updated"})
         /\ tx[a].user_id = tx[b].user_id
         /\ tx[a].program_id = tx[b].program_id
         /\ RequestDate(tx[a]) = DateOf(tx[a].at)
         /\ RequestDate(tx[b]) = DateOf(tx[b].at)
         /\ DateOf(tx[a].at) = DateOf(tx[b].at))
        => Cardinality(LogsOfDay(workout_logs, tx[a].user_id, tx[a].program_id,
                                 DateOf(tx[a].at))) = 1

-----------------------------------------------------------------------------
(* Further properties of the handlers called one at a time (Spec) *)

(* C11: an enrollment is created lazily on the first interaction of any kind:
   after a successful log_workout(u, p) an enrollment for (u, p) exists, as it
   does after a first start_program(u, p) or toggle_save_program(u, p). *)
C11_LogCreatesEnrollment ==
    (/\ last.op \in {"start", "toggle", "log"}
     /\ last.result \in {"ok", "created", "inserted", "updated"})
    => FindUP(user_programs, last.user_id, last.program_id) # {}

(* C12: start_date is set exactly once, on the first transition into Started:
   after every call an enrollment that has never had status Started has
   start_date unset, and an enrollment that has just become Started for the
   first time has start_date equal to the time of that call. *)
C12_StartDateOnFirstStart ==
    [][IsCall =>
         \A r \in user_programs' :
             /\ r.id \notin everStarted' => r.start_date = None
             /\ r.id \in everStarted' \ everStarted => r.start_date = now]_vars

(* C13: start_program with a program id that is not in the catalog answers
   NotFound and leaves every enrollment, every workout log and the profiles
   unchanged. *)
C13_StartUnknownProgram ==
    [][(IsCall /\ last'.op = "start" /\ last'.program_id \notin Catalog)
         => /\ last'.result = "not_found"
            /\ UNCHANGED <<user_programs, workout_logs, profiles>>]_vars

(* C13 witness: start_program of an unknown program has answered NotFound
   while the caller has an active enrollment. *)
C13_Witness ==
    /\ last.op = "start" /\ last.program_id = "p9" /\ last.result = "not_found"
    /\ ActiveOf(user_programs, last.user_id) # {}

(* C14: log_workout with a malformed input such as a negative or zero
   day_number is rejected before any store access: a log_workout call never
   inserts a workout log whose day_number is below 1. *)
C14_MalformedLogRejected ==
    [][(IsCall /\ last'.op = "log")
         => \A l \in workout_logs' \ workout_logs : l.day_number >= 1]_vars

-----------------------------------------------------------------------------
(* Properties of the read requests (SpecRead) *)

(* a read request has just been answered *)
IsRead == resp' # resp /\ resp'.op # "none"

(* C15: when user u has an active enrollment for program p, get_schedule_status(u)
   returns completed_workouts = the number of workout logs of (u, p),
   current_week = floor(completed_workouts / 7) + 1, start_date = that
   enrollment's start_date, and is_completed_today true exactly when some
   workout log of (u, p) has completed_at on the current calendar date. *)
C15_StatusOfActive ==
    \A r \in user_programs :
        (resp.op = "status" /\ r.user_id = resp.user_id /\ r.is_active)
        => LET mine == {l \in workout_logs :
                          l.user_id = r.user_id /\ l.program_id = r.program_id}
           IN /\ resp.status.result = "ok"
              /\ resp.status.completed_workouts = Cardinality(mine)
              /\ resp.status.current_week = (Cardinality(mine) \div 7) + 1
              /\ resp.status.start_date = r.start_date
              /\ resp.status.is_completed_today
                   <=> (\E l \in mine : DateOf(l.completed_at) = DateOf(now))

(* C16: in every state reachable by start_program, toggle_save_program and
   log_workout calls, get_active_program(u) and get_schedule_status(u) never
   fail: each returns null when u has no active enrollment and a result
   otherwise. *)
C16_ReadsNeverFail ==
    /\ resp.op = "active" =>
         /\ resp.program # "error"
         /\ resp.program = NoProgram <=> ActiveOf(user_programs, resp.user_id) = {}
    /\ resp.op = "status" =>
         /\ resp.status.result # "error"
         /\ resp.status.result = "none" <=> ActiveOf(user_programs, resp.user_id) = {}

(* C17: get_schedule_status and get_active_program are pure reads: answering
   either leaves all enrollments, all workout logs and the profiles unchanged. *)
C17_ReadsWriteNothing ==
    [][IsRead => UNCHANGED <<user_programs, workout_logs, profiles>>]_vars

(* C17 witness: get_schedule_status has answered for a user with an active
   enrollment and a logged workout. *)
C17_Witness ==
    /\ resp.op = "status" /\ resp.status.result = "ok"
    /\ resp.status.completed_workouts >= 1
    /\ user_programs # {} /\ workout_logs # {}

(* C18: no call of start_program, toggle_save_program or log_workout deletes a
   workout log, so the number of logs per (user, program) never decreases, and
   while the same program stays active the completed_workouts that
   get_schedule_status returns does not decrease across log_workout calls. *)
C18_LogsNeverDecrease ==
    [][IsCall =>
         /\ \A l \in workout_logs : \E k \in workout_logs' : k.id = l.id
         /\ \A u \in Users, p \in ProgramIds :
              Cardinality(LogsOf(workout_logs', u, p)) >= Cardinality(LogsOf(workout_logs, u, p))
         /\ \A u \in Users :
              LET before == GetScheduleStatus(user_programs, workout_logs, u, now)
                  after == GetScheduleStatus(user_programs', workout_logs', u, now')
              IN (/\ last'.op = "log"
                  /\ before.result = "ok" /\ after.result = "ok"
                  /\ GetActiveProgram(user_programs, u) = GetActiveProgram(user_programs', u))
                 => after.completed_workouts >= before.completed_workouts]_vars

(* C18 witness: the caller has logged workouts of the active program on two
   distinct calendar days, and get_schedule_status counts both. *)
C18_Witness ==
    /\ last.op = "log" /\ last.result = "inserted"
    /\ GetActiveProgram(user_programs, last.user_id) = last.program_id
    /\ GetScheduleStatus(user_programs, workout_logs, last.user_id, now).completed_workouts = 2
    /\ \E l, k \in LogsOf(workout_logs, last.user_id, last.program_id) :
          DateOf(l.completed_at) # DateOf(k.completed_at)

-----------------------------------------------------------------------------
(* Properties of one writing request with readers and cancellation (SpecSolo) *)

(* C19: log_workout commits its workout-log write (insert or same-day update)
   and its enrollment touch as one unit: at no point inside the request, hence
   for no reader and after no cancellation, is the log change committed while
   the enrollment of (u, p) still carries a last_interaction_at from before
   the request. *)
C19_LogAtomic ==
    \A pr \in Procs :
        (/\ tx[pr].op = "log" /\ tx[pr].pc \notin {"idle", "done"}
         /\ tx[pr].log_new # tx[pr].log
         /\ tx[pr].log_new # {} /\ tx[pr].log_new \subseteq workout_logs)
        => \A r \in FindUP(user_programs, tx[pr].user_id, tx[pr].program_id) :
               r.last_interaction_at >= tx[pr].at

(* the caller, whose active program was p1, has made one request so far:
   start_program(p2) *)
SoloStartP2 ==
    /\ nops = 1 /\ tx[Writer].op = "start" /\ tx[Writer].program_id = "p2"
    /\ tx[Writer].user_id = "u1"
    /\ \E r \in user_programs : r.id = 3

(* C20: start_program is atomic for readers and under cancellation: while
   start_program(u, p2) runs for a user whose active program was p1, the read
   requests see p1 active or p2 active and never neither; and every step of a
   start_program request other than its answering commit, its cancellation
   included, leaves the committed rows unchanged. *)
C20_StartAtomic ==
    /\ [](SoloStartP2 =>
            /\ GetActiveProgram(user_programs, "u1") \in {"p1", "p2"}
            /\ resp.op = "active" => resp.program \in {"p1", "p2"}
            /\ resp.op = "status" => resp.status.result = "ok"
            /\ tx[Writer].result \in {"cancelled", "error"} =>
                 /\ GetActiveProgram(user_programs, "u1") = "p1"
                 /\ profiles["u1"].current_program_id = "p1")
    /\ [][(tx[Writer].op = "start" /\ tx[Writer].pc \notin {"idle", "done"}
           /\ tx'[Writer].result # "ok")
            => UNCHANGED <<user_programs, workout_logs, profiles>>]_vars

(* C20 witness: get_active_program has answered p1 while start_program(p2) has
   run its deactivating UPDATE and has not yet committed. *)
C20_Witness ==
    /\ SoloStartP2 /\ tx[Writer].pc = "s_commit" /\ tx[Writer].deact # {}
    /\ resp.op = "active" /\ resp.program = "p1"

-----------------------------------------------------------------------------
(* Properties of the rows of one user and of the enrollment's columns *)

(* the rows of user u *)
Own(rows, u) == {r \in rows : r.user_id = u}

(* C21: every call made for user u leaves the enrollments, workout logs and
   profile of every other user unchanged, and the queries that decide its
   outcome and the read results return from the whole store what they return
   from u's rows alone. *)
C21_OtherUsersUntouched ==
    [][IsCall =>
         LET u == last'.user_id IN
         /\ \A v \in Users \ {u} :
              /\ Own(user_programs', v) = Own(user_programs, v)
              /\ Own(workout_logs', v) = Own(workout_logs, v)
              /\ profiles'[v] = profiles[v]
         /\ ActiveOf(user_programs, u) = ActiveOf(Own(user_programs, u), u)
         /\ GetActiveProgram(user_programs, u) = GetActiveProgram(Own(user_programs, u), u)
         /\ GetScheduleStatus(user_programs, workout_logs, u, now)
              = GetScheduleStatus(Own(user_programs, u), Own(workout_logs, u), u, now)
         /\ \A p \in ProgramIds :
              /\ FindUP(user_programs, u, p) = FindUP(Own(user_programs, u), u, p)
              /\ LogsOf(workout_logs, u, p) = LogsOf(Own(workout_logs, u), u, p)
              /\ LogsOfDay(workout_logs, u, p, DateOf(now))
                   = LogsOfDay(Own(workout_logs, u), u, p, DateOf(now))]_vars

(* C21 witness: the caller has started a program while another user has an
   active enrollment and a workout log of their own. *)
C21_Witness ==
    /\ last.op = "start" /\ last.result = "ok" /\ last.user_id = "u1"
    /\ ActiveOf(user_programs, Other) # {}
    /\ Own(workout_logs, Other) # {}

(* C22: there is at most one enrollment per (user, program), also after two
   overlapping first-time calls of start_program or toggle_save_program by the
   same user for the same program. *)
C22_OneEnrollmentPerPair ==
    \A r, q \in user_programs :
        (r.user_id = q.user_id /\ r.program_id = q.program_id) => r.id = q.id

(* C23: after each successful start_program(u, p), non-deleting
   toggle_save_program(u, p) or log_workout(u, p), the enrollment of (u, p), if
   there is one, has last_interaction_at equal to the time of the call; and no
   call decreases the last_interaction_at of an enrollment. *)
C23_LastInteractionRefreshed ==
    [][IsCall =>
         /\ last'.result \in {"ok", "created", "saved", "inserted", "updated"} =>
              \A r \in FindUP(user_programs', last'.user_id, last'.program_id) :
                  r.last_interaction_at = now
         /\ \A r \in user_programs, q \in user_programs' :
              r.id = q.id => q.last_interaction_at >= r.last_interaction_at]_vars

(* C23 witness: a same-day log_workout has updated a log and the enrollment,
   last touched at an earlier time, carries the time of that call. *)
C23_Witness ==
    /\ last.op = "log" /\ last.result = "updated"
    /\ \E r \in FindUP(user_programs, last.user_id, last.program_id) :
          /\ r.last_interaction_at = now
          /\ \E q \in pre : q.id = r.id /\ q.last_interaction_at < now

-----------------------------------------------------------------------------
(* Properties of the workout log that log_workout merges into *)

(* C24: log_workout selects the entry to merge into by the calendar date D of
   the supplied completed_at (of the time of the call when omitted): it
   updates an existing (u, p) entry only if that entry is dated on D, leaves
   the (u, p) entries of other days as they are, and inserts a new entry with
   the given completed_at exactly when no entry of D exists. *)
C24_MergeByCompletedAtDate ==
    [][(IsCall /\ last'.op = "log" /\ last'.result \in {"inserted", "updated"}) =>
         LET u == last'.user_id
             p == last'.program_id
             D == RequestDate(last')
         IN /\ last'.result = "updated" =>
                 \E l \in workout_logs : l.id = last'.log_id /\ DateOf(l.completed_at) = D
            /\ \A l \in LogsOf(workout_logs, u, p) :
                 DateOf(l.completed_at) # D => l \in workout_logs'
            /\ last'.result = "inserted" <=> LogsOfDay(workout_logs, u, p, D) = {}
            /\ last'.result = "inserted" =>
                 \E l \in workout_logs' \ workout_logs :
                     /\ l.id = last'.log_id
                     /\ DateOf(l.completed_at) = D]_vars

(* C25: when log_workout finds an existing same-day entry it changes only that
   entry's duration_minutes and notes: id, day_number and completed_at keep
   their values, the number of workout logs is unchanged, and the returned
   entry is the updated existing one. *)
C25_UpdateInPlace ==
    [][(IsCall /\ last'.op = "log" /\ last'.result = "updated") =>
         \E l \in LogsOfDay(workout_logs, last'.user_id, last'.program_id, DateOf(now)) :
             /\ l.id = last'.log_id
             /\ workout_logs' = (workout_logs \ {l}) \cup
                    {[l EXCEPT !.duration_minutes = last'.duration_minutes,
                               !.notes = last'.notes]}
             /\ Cardinality(workout_logs') = Cardinality(workout_logs)]_vars

(* C25 witness: a log_workout call with another completed_at and another
   day_number has updated an existing entry, which keeps its completed_at and
   its day_number and carries the call's duration. *)
C25_Witness ==
    /\ last.op = "log" /\ last.result = "updated"
    /\ last.completed_at # None /\ last.duration_minutes = 30
    /\ \E l \in workout_logs :
          /\ l.id = last.log_id
          /\ l.completed_at # last.completed_at
          /\ l.day_number = 1
          /\ l.duration_minutes = 30

-----------------------------------------------------------------------------
(* Properties of status, is_active and the profile's current program *)

(* C26: every enrollment with is_active = TRUE has status Started. *)
C26_ActiveIsStarted ==
    \A r \in user_programs : r.is_active => r.status = "started"

(* C26 as amended: every enrollment with is_active = TRUE has status Started,
   or has status Saved and has been Started before (toggle_save_program saved
   it while it was active); it is never Completed and never a Saved enrollment
   that was not started. *)
C26_ActiveIsStartedOrSavedAfterStart ==
    \A r \in user_programs :
        r.is_active =>
            \/ r.status = "started"
            \/ r.status = "saved" /\ r.id \in everStarted

(* C26 witness: the caller has an active enrollment with status Saved, made so
   by toggle_save_program. *)
C26_Witness ==
    /\ last.op = "toggle" /\ last.result = "saved"
    /\ \E r \in FindUP(user_programs, last.user_id, last.program_id) :
          r.is_active /\ r.status = "saved"

(* C27: the profile's current program agrees with the enrollments: if user u
   has an active enrollment, the profile's current_program_id is that
   enrollment's program, and if u has none the profile names no program. *)
C27_ProfileMirrorsActive ==
    \A u \in Users :
        /\ \A r \in ActiveOf(user_programs, u) : profiles[u].current_program_id = r.program_id
        /\ ActiveOf(user_programs, u) = {} => profiles[u].current_program_id = NoProgram

(* C28: log_workout(u, p) on an enrollment whose status is Started or Completed
   changes only that enrollment's last_interaction_at: every other column and
   every other enrollment stay as they are, and get_active_program(u) returns
   what it returned before. *)
C28_LogOnStartedOnlyTouches ==
    [][(IsCall /\ last'.op = "log" /\ last'.result \in {"inserted", "updated"}) =>
         \A r \in FindUP(user_programs, last'.user_id, last'.program_id) :
             r.status \in {"started", "completed"} =>
                 /\ user_programs' = (user_programs \ {r}) \cup
                                       {[r EXCEPT !.last_interaction_at = now]}
                 /\ GetActiveProgram(user_programs', last'.user_id)
                      = GetActiveProgram(user_programs, last'.user_id)]_vars

(* C28 witness: the caller has logged a workout of a started, currently
   inactive program while another program is the active one. *)
C28_Witness ==
    /\ last.op = "log" /\ last.result = "inserted"
    /\ \E r \in FindUP(user_programs, last.user_id, last.program_id) :
          r.status = "started" /\ ~r.is_active
    /\ GetActiveProgram(user_programs, last.user_id) \in Catalog \ {last.program_id}

(* C29: the completed_workouts that get_schedule_status returns for the active
   program p counts every workout log of (u, p), whenever it was logged:
   before p was started, while p was inactive or saved, or before the
   enrollment was deleted and created again. *)
C29_ProgressFromLedger ==
    (resp.op = "status" /\ resp.status.result = "ok") =>
        \E r \in ActiveOf(user_programs, resp.user_id) :
            resp.status.completed_workouts
              = Cardinality({l \in workout_logs :
                               l.user_id = resp.user_id /\ l.program_id = r.program_id})

(* C29 witness: get_schedule_status has counted a workout logged before the
   active enrollment was created and before its start_date. *)
C29_Witness ==
    /\ resp.op = "status" /\ resp.status.result = "ok"
    /\ resp.status.completed_workouts >= 1
    /\ \E r \in ActiveOf(user_programs, resp.user_id) :
          \E l \in LogsOf(workout_logs, resp.user_id, r.program_id) :
              l.id < r.id /\ l.completed_at < r.start_date

(* C30: no call assigns status Completed: every enrollment's status is Started
   or Saved. *)
C30_NeverCompleted ==
    \A r \in user_programs : r.status \in {"started", "saved"}

(* C30 witness: after a log_workout on a started enrollment the caller has a
   started and a saved enrollment. *)
C30_Witness ==
    /\ last.op = "log" /\ last.result \in {"inserted", "updated"}
    /\ \E r \in FindUP(pre, last.user_id, last.program_id) : r.status = "started"
    /\ \E r, q \in Own(user_programs, last.user_id) :
          r.status = "started" /\ q.status = "saved"

====
